---- MODULE Spec2Model ----
(***************************************************************************)
(* Velocity document pipeline: the Parsing Worker                          *)
(* (src/app/api/worker/files/process/route.ts) and the Rule Evaluation     *)
(* Engine (src/unnamed/part_004) over the "applications" collection.       *)
(* Every worker invocation is a process whose steps are the awaited store  *)
(* operations of its POST handler; the store, the clock and the            *)
(* configuration collections are shared.                                   *)
(***************************************************************************)
EXTENDS Integers, Sequences, FiniteSets, TLC

\* ---------------------------------------------------------------- bounds
MaxJobs == 2
MaxInv == 3
MaxLoad == 4
MaxTicks == 3
MaxRules == 2
MaxOverlayRules == 1
MaxDrivers == 1
MaxApps == 1
ProgressSlots == 2
MaxCrashes == 1
MaxElapses == MaxApps * (ProgressSlots + MaxCrashes) * (ProgressSlots + 1)

\* ------------------------------------------------------ program constants
LEASE_MS == 5 * 60 * 1000
MinPdfBytes == 50
EvidenceClip == 160
HeadWindow == 200
DownloadAttempts == 2

\* The clock is observed every TickMs milliseconds (one lease duration).
TickMs == LEASE_MS
MaxTime == MaxTicks * TickMs
\* The clock reading at which the model starts; jobs were created up to then.
InitClock == TickMs

\* Optional values: null is the empty sequence, a present value x is <<x>>.
Null == <<>>
Some(x) == <<x>>
NoTime == -1

VARIABLES
  applications,     \* the "applications" collection: job id -> job record
  companyProfiles,  \* the "companyProfiles" collection: a set of documents
  rulePacks,        \* the "rulePacks" collection
  programs,         \* the "programs" collection
  overlays,         \* the "overlays" collection
  clock,            \* Timestamp.now() in milliseconds
  bucket,           \* the Document Store: its files and its faults
  inv               \* the worker invocations in flight

vars == <<applications, companyProfiles, rulePacks, programs, overlays, bucket, clock, inv>>
config == <<companyProfiles, rulePacks, programs, overlays, bucket>>

\* ------------------------------------------------------------------ text
\* A text is a sequence of characters; "A" is the upper case of "a".
Lower(c) == IF c = "A" THEN "a" ELSE c
IsSpace(c) == c \in {" ", "\n", "\r"}

trimStart(t) ==
  LET kept == { i \in 1..Len(t) : \E k \in 1..i : ~IsSpace(t[k]) }
  IN SubSeq(t, Len(t) - Cardinality(kept) + 1, Len(t))

RECURSIVE trimEnd(_)
trimEnd(t) ==
  IF t # <<>> /\ IsSpace(t[Len(t)]) THEN trimEnd(SubSeq(t, 1, Len(t) - 1)) ELSE t

\* String.prototype.trim
trim(t) == trimEnd(trimStart(t))

\* text.replace(/\r\n/g, "\n")
RECURSIVE unifyLineEndings(_)
unifyLineEndings(t) ==
  IF t = <<>> THEN <<>>
  ELSE IF Len(t) >= 2 /\ t[1] = "\r" /\ t[2] = "\n"
       THEN <<"\n">> \o unifyLineEndings(SubSeq(t, 3, Len(t)))
       ELSE <<Head(t)>> \o unifyLineEndings(Tail(t))

\* extractedText.replace(/\r\n/g, "\n").trim()
normalizeText(t) == trim(unifyLineEndings(t))

\* new RegExp(pattern, "i"): a pattern with an unbalanced "(" does not compile.
safeRegex(pattern) == \A i \in 1..Len(pattern) : pattern[i] # "("

\* The positions at which the (literal, case-insensitive) pattern occurs in text.
matchPositions(pattern, text) ==
  { i \in 1..(Len(text) - Len(pattern) + 1) :
      \A k \in 1..Len(pattern) : Lower(text[i + k - 1]) = Lower(pattern[k]) }

\* re.test(text)
regexTest(pattern, text) == matchPositions(pattern, text) # {}

Min(S) == CHOOSE x \in S : \A y \in S : x <= y

\* firstMatchEvidence: the first match, trimmed and clipped, or a fixed note.
firstMatchEvidence(pattern, text) ==
  IF ~regexTest(pattern, text) THEN <<"No match">>
  ELSE LET i == Min(matchPositions(pattern, text))
           s == trim(SubSeq(text, i, i + Len(pattern) - 1))
       IN IF s # <<>> THEN <<"Matched">> \o SubSeq(s, 1, IF Len(s) < EvidenceClip THEN Len(s) ELSE EvidenceClip)
          ELSE <<"Matched pattern">>

\* ------------------------------------------------------- rule evaluation
\* A rule is [ruleId, title, severity, pattern, type]; an absent severity or
\* type is "". Merged rules carry source.
tagSource(rules, src) ==
  [i \in 1..Len(rules) |->
     [ruleId |-> rules[i].ruleId, title |-> rules[i].title, severity |-> rules[i].severity,
      pattern |-> rules[i].pattern, type |-> rules[i].type, source |-> src]]

\* r.type || "finding"
ruleType(r) == IF r.type = "" THEN "finding" ELSE r.type

\* A test that lets a blank pattern through to the regular expression.
ruleMatchesBlankKept(r, text) ==
  LET pattern == trim(r.pattern)
  IN safeRegex(pattern) /\ regexTest(pattern, text)

\* The rule is evaluated and matches: non-blank pattern that compiles and tests true.
ruleMatches(r, text) ==
  LET pattern == trim(r.pattern)
  IN pattern # <<>> /\ safeRegex(pattern) /\ regexTest(pattern, text)

matchItem(r, text) ==
  [ruleId |-> r.ruleId,
   title |-> r.title,
   severity |-> IF r.severity # "" THEN r.severity
                ELSE IF ruleType(r) = "blocker" THEN "error" ELSE "warn",
   evidence |-> firstMatchEvidence(trim(r.pattern), text),
   source |-> IF r.source # "" THEN r.source ELSE "base"]

\* The matched items of the rules that fall into bucket b, in rule order.
RECURSIVE matchedInto(_, _, _)
matchedInto(rules, text, b) ==
  IF rules = <<>> THEN <<>>
  ELSE LET r == Head(rules)
           rest == matchedInto(Tail(rules), text, b)
           into == IF ruleType(r) = "condition" THEN "conditions"
                   ELSE IF ruleType(r) = "blocker" THEN "blockers"
                   ELSE "matchedFindings"
       IN IF ruleMatches(r, text) /\ into = b THEN <<matchItem(r, text)>> \o rest ELSE rest

\* The decision taken from the conditions alone.
decideBlockerIgnored(blockers, conditions) ==
  IF Len(conditions) # 0 THEN "conditional" ELSE "pass"

\* let decision = "pass"; if (blockers.length) "fail"; else if (conditions.length) "conditional"
decide(blockers, conditions) ==
  IF Len(blockers) # 0 THEN "fail"
  ELSE IF Len(conditions) # 0 THEN "conditional"
  ELSE "pass"

\* ------------------------------------------------------------ job records
Absent == -1

\* The application document as the upload flow creates it (or as a requeue
\* leaves it): a stage, the references, optionally an already extracted text.
NewJob(stage, objectPath, companyProfileId, programId, text, createdAt) ==
  [processingStage |-> stage,
   objectPath |-> objectPath,
   companyProfileId |-> companyProfileId,
   programId |-> programId,
   extractedTextCombined |-> text,
   extractedTextLength |-> IF text = <<>> THEN Absent ELSE Len(text),
   extractor |-> "",
   fallbackUsed |-> FALSE,
   parsingError |-> "",
   parsingFailedAt |-> NoTime,
   parsingStartedAt |-> NoTime,
   parsingCompletedAt |-> NoTime,
   aiStartedAt |-> NoTime,
   aiCompletedAt |-> NoTime,
   decision |-> "",
   decisionArtifactPublic |-> Null,
   decisionArtifactRaw |-> Null,
   lastError |-> "",
   error |-> "",
   workerLease |-> Null,
   leaseReleasedAt |-> NoTime,
   leaseReleaseReason |-> "",
   updatedAt |-> createdAt]

\* ---------------------------------------------------- worker invocations
IdleInv ==
  [pc |-> "idle", kind |-> "", now |-> NoTime,
   leaseId |-> 0, claimedAt |-> NoTime, ref |-> 0, app |-> Null, out |-> Null, reason |-> "", resp |-> Null]

Jobs == DOMAIN applications
Slots == DOMAIN inv

Response(status, ok, processed, msg) ==
  [status |-> status, ok |-> ok, processed |-> processed, msg |-> msg,
   decision |-> "", matched |-> Absent, conditionsMatched |-> Absent]

\* ------------------------------------------------- download and extraction
\* bucket.files[path] describes the stored document: the text the extractor
\* yields on its bytes, whether its structure is malformed ("", "xref" or
\* "other"), and whether the repair tool can rewrite it. bucket.faults are the
\* ways a download of this store can go wrong: "small" (truncated below the
\* size floor), "html" (an error page), "padded" (an error page behind a
\* window of whitespace), "corrupt" (truncated, still large), "throw" (the
\* request fails).
Payloads == {"intact", "corrupt", "small", "html", "padded", "throw"}

Pad(n, c) == [i \in 1..n |-> c]

\* The bytes of a downloaded payload.
payloadBytes ==
  [p \in Payloads |->
     CASE p = "small" -> <<"%">> \o Pad(MinPdfBytes - 2, "x")
       [] p = "html" -> <<" ", "<">> \o Pad(MinPdfBytes, "x")
       [] p = "padded" -> Pad(HeadWindow, " ") \o <<"<">> \o Pad(MinPdfBytes, "x")
       [] p = "throw" -> <<>>
       [] OTHER -> <<"%">> \o Pad(MinPdfBytes - 1, "x")]

payloadLength(p) == Len(payloadBytes[p])

\* buf.subarray(0, Math.min(buf.length, 200))
payloadHead(p) ==
  SubSeq(payloadBytes[p], 1, IF payloadLength(p) < HeadWindow THEN payloadLength(p) ELSE HeadWindow)

looksLikeHtml(head) == LET h == trimStart(head) IN h # <<>> /\ Head(h) = "<"

Ok(text) == [ok |-> TRUE, text |-> text, error |-> ""]
Err(msg) == [ok |-> FALSE, text |-> <<>>, error |-> msg]

\* An attempt that accepts a payload of any length.
fetchErrorNoSizeFloor(p) ==
  IF p = "throw" THEN "download failed"
  ELSE IF looksLikeHtml(payloadHead(p)) THEN "Downloaded content looks like HTML, not a PDF"
  ELSE ""

\* One attempt of the loop of downloadPdfWithRetry: the error it raises, or "".
fetchError(p) ==
  IF p = "throw" THEN "download failed"
  ELSE IF payloadLength(p) < MinPdfBytes THEN "Downloaded file too small"
  ELSE IF looksLikeHtml(payloadHead(p)) THEN "Downloaded content looks like HTML, not a PDF"
  ELSE ""

\* The error of an attempt, by the payload it fetches.
fetchErrors == [p \in Payloads |-> fetchError(p)]

\* The loop of downloadPdfWithRetry from the given attempt on; fetched counts
\* the attempts made.
RECURSIVE downloadLoop(_, _)
downloadLoop(fetches, attempt) ==
  IF attempt > DownloadAttempts
    THEN [ok |-> FALSE, attempt |-> 0, buf |-> "", error |-> fetchErrors[fetches[attempt - 1]],
          fetched |-> attempt - 1]
  ELSE IF fetchErrors[fetches[attempt]] = ""
    THEN [ok |-> TRUE, attempt |-> attempt, buf |-> fetches[attempt], error |-> "",
          fetched |-> attempt]
  ELSE downloadLoop(fetches, attempt + 1)

\* downloadPdfWithRetry over the payloads its attempts would fetch.
downloadPdfWithRetry(fetches) == downloadLoop(fetches, 1)

FetchResults == {"intact"} \cup bucket.faults
DownloadResults == { downloadPdfWithRetry(f) : f \in [1..DownloadAttempts -> FetchResults] }

ParseErrors == { "bad XRef entry", "Invalid PDF structure" }

\* parsePdfToText(buf): the ways it can end on these bytes.
parsePdfToText(file, buf) ==
  IF buf = "corrupt" THEN { Err(e) : e \in ParseErrors }
  ELSE IF buf \notin {"intact", "repaired"} THEN { Err("Invalid PDF structure") }
  ELSE IF file.malformed = "xref" /\ buf # "repaired" THEN { Err("bad XRef entry") }
  ELSE IF file.malformed = "other" THEN { Err("Invalid PDF structure") }
  ELSE { Ok(file.text) }

\* repairPdfBuffer(buf): the repaired bytes, or the error of the rewrite.
repairPdfBuffer(file, buf) ==
  IF buf = "intact" /\ file.repairable THEN [ok |-> TRUE, buf |-> "repaired", error |-> ""]
  ELSE [ok |-> FALSE, buf |-> "", error |-> "Failed to parse PDF document"]

\* A signature test that takes every error for a cross-reference error.
isLikelyXrefErrorAny(msg) == TRUE

isLikelyXrefError(msg) ==
  msg \in { "bad XRef entry", "Failed to parse PDF document" }

\* The calls of one invocation to the store, the extractor and the repair
\* tool, in order: which call ("download", "parse", "repair"), from which place
\* of the handler ("primary", "retry", "fallback"), on which bytes, and how it
\* ended.
downloadCall(phase, d) ==
  [op |-> "download", phase |-> phase, buf |-> d.buf, ok |-> d.ok,
   fetched |-> d.fetched, attempt |-> d.attempt]
toolCall(op, phase, buf, ok) ==
  [op |-> op, phase |-> phase, buf |-> buf, ok |-> ok, fetched |-> 0, attempt |-> 0]
Logged(r, calls) == [ok |-> r.ok, text |-> r.text, error |-> r.error, calls |-> calls]
Outcome(t, r) == Logged(r, t.calls)

\* Lines 236-237: the re-download and the second extraction.
primaryRetry(file) ==
  UNION { IF ~d2.ok THEN { Logged(Err(d2.error), <<downloadCall("retry", d2)>>) }
          ELSE { Logged(p2, <<downloadCall("retry", d2), toolCall("parse", "retry", d2.buf, p2.ok)>>)
                 : p2 \in parsePdfToText(file, d2.buf) }
          : d2 \in DownloadResults }

\* A primary path that re-downloads whatever attempt delivered the bytes.
primaryParsedAlwaysRetried(file) ==
  UNION { IF ~d1.ok THEN { Logged(Err(d1.error), <<downloadCall("primary", d1)>>) }
          ELSE UNION { LET calls == <<downloadCall("primary", d1),
                                      toolCall("parse", "primary", d1.buf, p1.ok)>>
                       IN IF p1.ok THEN { Logged(p1, calls) }
                          ELSE { Logged(r, calls \o r.calls) : r \in primaryRetry(file) }
                       : p1 \in parsePdfToText(file, d1.buf) }
          : d1 \in DownloadResults }

\* Lines 229-241: the primary path, as the set of ways it can end.
primaryParsed(file) ==
  UNION { IF ~d1.ok THEN { Logged(Err(d1.error), <<downloadCall("primary", d1)>>) }
          ELSE UNION { LET calls == <<downloadCall("primary", d1),
                                      toolCall("parse", "primary", d1.buf, p1.ok)>>
                       IN IF p1.ok THEN { Logged(p1, calls) }
                          ELSE IF d1.attempt = 1
                            THEN { Logged(r, calls \o r.calls) : r \in primaryRetry(file) }
                          ELSE { Logged(p1, calls) }
                       : p1 \in parsePdfToText(file, d1.buf) }
          : d1 \in DownloadResults }

\* The primary path without the test for an empty text.
PrimaryResultsBlankAccepted(file) ==
  { IF r.ok THEN Outcome(r, Ok(normalizeText(r.text))) ELSE r : r \in primaryParsed(file) }

PrimaryResults(file) ==
  { IF r.ok /\ normalizeText(r.text) = <<>>
      THEN Outcome(r, Err("PDF parsed but extractedText was empty."))
      ELSE IF r.ok THEN Outcome(r, Ok(normalizeText(r.text))) ELSE r : r \in primaryParsed(file) }

\* Lines 272-282: the repair fallback after the primary path raised e1.
repairFallback(file, e1) ==
  IF ~isLikelyXrefError(e1) THEN { Logged(Err(e1), <<>>) }
  ELSE UNION { IF ~d3.ok THEN { Logged(Err(d3.error), <<downloadCall("fallback", d3)>>) }
               ELSE LET rep == repairPdfBuffer(file, d3.buf)
                        calls == <<downloadCall("fallback", d3),
                                   toolCall("repair", "fallback", d3.buf, rep.ok)>>
                    IN IF ~rep.ok THEN { Logged(Err(rep.error), calls) }
                       ELSE { Logged(IF ~p3.ok THEN p3
                                     ELSE IF normalizeText(p3.text) = <<>>
                                       THEN Err("Repair succeeded but extractedText was empty.")
                                       ELSE Ok(normalizeText(p3.text)),
                                     Append(calls, toolCall("parse", "fallback", rep.buf, p3.ok)))
                              : p3 \in parsePdfToText(file, rep.buf) }
               : d3 \in DownloadResults }

\* The ways the download-and-extract part of one invocation can run; e1 is the
\* error the primary path raised, "" when it raised none.
ExtractionRuns(file) ==
  { [ok |-> TRUE, text |-> r.text, error |-> "", extractor |-> "pdf-parse", fallbackUsed |-> FALSE,
     e1 |-> "", calls |-> r.calls]
      : r \in { x \in PrimaryResults(file) : x.ok } }
  \cup
  UNION { { [ok |-> q.ok, text |-> q.text, error |-> q.error,
             extractor |-> IF q.ok THEN "pdf-parse+pdf-lib-repair" ELSE "",
             fallbackUsed |-> q.ok, e1 |-> r.error, calls |-> r.calls \o q.calls]
            : q \in repairFallback(file, r.error) }
          : r \in { x \in PrimaryResults(file) : ~x.ok } }

\* What the handler keeps of a run: its result.
resultOf(run) ==
  [ok |-> run.ok, text |-> run.text, error |-> run.error, extractor |-> run.extractor,
   fallbackUsed |-> run.fallbackUsed, e1 |-> run.e1]

ExtractionOutcomes(file) == { resultOf(run) : run \in ExtractionRuns(file) }

\* bucket.file(objectPath): a path without an object downloads nothing.
MissingFile == [text |-> <<>>, malformed |-> "other", repairable |-> FALSE]
fileAt(path) == IF path \in DOMAIN bucket.files THEN bucket.files[path] ELSE MissingFile

\* ------------------------------------------------------------ store access
\* ref.set(fields) without merge: the fields not written are lost.
MergeOverwrite(fields, doc) ==
  [k \in DOMAIN doc |->
     IF k \in DOMAIN fields THEN fields[k]
     ELSE IF k \in {"objectPath", "companyProfileId", "programId"} THEN ""
     ELSE doc[k]]

\* ref.set(fields, { merge: true })
Merge(fields, doc) == [k \in DOMAIN doc |-> IF k \in DOMAIN fields THEN fields[k] ELSE doc[k]]
setMerge(j, fields) == [applications EXCEPT ![j] = Merge(fields, @)]

Local(w, fields) == [inv EXCEPT ![w] = Merge(fields, @)]

\* where("processingStage", "==", stage).orderBy("updatedAt", "asc").limit(1):
\* the oldest-updated document of the stage (ties in document-id order), or 0.
queryOldest(stage) ==
  LET S == { j \in Jobs : applications[j].processingStage = stage }
  IN IF S = {} THEN 0
     ELSE CHOOSE j \in S : \A k \in S :
            \/ applications[j].updatedAt < applications[k].updatedAt
            \/ applications[j].updatedAt = applications[k].updatedAt /\ j <= k

\* The lease test of a claim that looks at no lease.
leaseActiveIgnored(app, now) == FALSE

\* The lease test with the lease still active at its expiresAt.
leaseActiveInclusive(app, now) ==
  /\ app.workerLease # Null
  /\ app.workerLease[1].expiresAt # 0
  /\ app.workerLease[1].expiresAt >= now

\* The lease test under which a lease never runs out.
leaseActiveForEver(app, now) == app.workerLease # Null

\* lease && leaseExpiresMs && leaseExpiresMs > now.toMillis()
leaseActive(app, now) ==
  /\ app.workerLease # Null
  /\ app.workerLease[1].expiresAt # 0
  /\ app.workerLease[1].expiresAt > now

\* The job the claim transaction of a worker of this stage takes, or 0.
claimTarget(stage, now) ==
  LET j == queryOldest(stage)
  IN IF j = 0 THEN 0
     ELSE IF applications[j].processingStage # stage THEN 0
     ELSE IF leaseActive(applications[j], now) THEN 0
     ELSE j

\* A lease that is written already expired.
newLeaseExpired(holder, stage, now) ==
  [holder |-> holder, stage |-> stage, claimedAt |-> now, expiresAt |-> now]

newLease(holder, stage, now) ==
  [holder |-> holder, stage |-> stage, claimedAt |-> now, expiresAt |-> now + LEASE_MS]

\* A release that records the reason and leaves the lease in place.
releaseLeaseKept(j, reason) ==
  setMerge(j, [leaseReleasedAt |-> clock, leaseReleaseReason |-> reason, updatedAt |-> clock])

\* releaseLease(ref, admin, reason): Timestamp.now() and the merge-write.
releaseLease(j, reason) ==
  setMerge(j, [workerLease |-> Null, leaseReleasedAt |-> clock,
               leaseReleaseReason |-> reason, updatedAt |-> clock])

\* -------------------------------------------------- analysis: the evaluation
\* collection.doc(id).get(): the documents of the collection with that id.
lookup(coll, id) == { d \in coll : d.id = id }
theDoc(S) == CHOOSE d \in S : TRUE

\* The requirement checks without the check of the extracted text.
failClosedErrorTextUnchecked(app) ==
  LET company == lookup(companyProfiles, app.companyProfileId)
  IN IF app.companyProfileId = "" THEN "App missing companyProfileId (cannot choose rulepack)"
     ELSE IF company = {} THEN "Company profile not found"
     ELSE IF theDoc(company).rulePackId = "" THEN "companyProfiles doc missing rulePackId"
     ELSE IF lookup(rulePacks, theDoc(company).rulePackId) = {} THEN "Rule pack not found"
     ELSE ""

\* Lines 146-231: the message of the first failed requirement, or "".
failClosedError(app) ==
  LET company == lookup(companyProfiles, app.companyProfileId)
  IN IF app.companyProfileId = "" THEN "App missing companyProfileId (cannot choose rulepack)"
     ELSE IF trim(app.extractedTextCombined) = <<>>
       THEN "Missing extractedTextCombined (cannot evaluate rules)"
     ELSE IF company = {} THEN "Company profile not found"
     ELSE IF theDoc(company).rulePackId = "" THEN "companyProfiles doc missing rulePackId"
     ELSE IF lookup(rulePacks, theDoc(company).rulePackId) = {} THEN "Rule pack not found"
     ELSE ""

\* A resolution that does not look whether the overlay document exists.
resolveOverlayUnchecked(app) ==
  LET none == [applied |-> FALSE, id |-> "", name |-> "", rules |-> <<>>]
      program == lookup(programs, app.programId)
  IN IF app.programId = "" \/ program = {} THEN none
     ELSE IF theDoc(program).activeOverlayId = "" THEN none
     ELSE LET overlay == lookup(overlays, theDoc(program).activeOverlayId)
          IN [applied |-> TRUE,
              id |-> theDoc(program).activeOverlayId,
              name |-> theDoc(program).activeOverlayId,
              rules |-> IF overlay = {} THEN <<>> ELSE tagSource(theDoc(overlay).rules, "overlay")]

\* Lines 237-272: the overlay of the job's program, if all of it resolves.
resolveOverlay(app) ==
  LET none == [applied |-> FALSE, id |-> "", name |-> "", rules |-> <<>>]
      program == lookup(programs, app.programId)
  IN IF app.programId = "" \/ program = {} THEN none
     ELSE IF theDoc(program).activeOverlayId = "" THEN none
     ELSE LET overlay == lookup(overlays, theDoc(program).activeOverlayId)
          IN IF overlay = {} THEN none
             ELSE [applied |-> TRUE,
                   id |-> theDoc(program).activeOverlayId,
                   name |-> IF theDoc(overlay).name # "" THEN theDoc(overlay).name
                            ELSE theDoc(program).activeOverlayId,
                   rules |-> tagSource(theDoc(overlay).rules, "overlay")]

\* A merge in which an overlay rule replaces the base rules of its ruleId.
mergeRulesById(baseRules, overlayRules) ==
  SelectSeq(baseRules,
            LAMBDA r : \A i \in 1..Len(overlayRules) : overlayRules[i].ruleId # r.ruleId)
    \o overlayRules

\* const rules = [...baseRules, ...overlayRules]
mergeRules(baseRules, overlayRules) == baseRules \o overlayRules

\* now.toDate().toISOString()
toISOString(t) == <<"iso", t>>

\* Lines 233-308: the rules evaluated on the job's text. A null overlayId,
\* overlayName or programId is "", the summary is the tuple of the numbers and
\* the decision it prints.
ruleResults(app) ==
  LET pack == theDoc(lookup(rulePacks, theDoc(lookup(companyProfiles, app.companyProfileId)).rulePackId))
      text == app.extractedTextCombined
      ov == resolveOverlay(app)
      rules == mergeRules(tagSource(pack.rules, "base"), ov.rules)
      matchedFindings == matchedInto(rules, text, "matchedFindings")
      conditions == matchedInto(rules, text, "conditions")
      blockers == matchedInto(rules, text, "blockers")
      decision == decide(blockers, conditions)
  IN [pack |-> pack, ov |-> ov, matchedFindings |-> matchedFindings,
      conditions |-> conditions, blockers |-> blockers, decision |-> decision,
      summary |-> <<Len(rules), Len(matchedFindings), Len(conditions), decision>>]

\* A public artifact that copies the raw one.
decisionArtifactPublicCopied(app, res, now) ==
  [rulePackId |-> res.pack.id, rulePackVersion |-> res.pack.rulePackVersion,
   companyProfileId |-> app.companyProfileId,
   programId |-> app.programId,
   overlayApplied |-> res.ov.applied, overlayId |-> res.ov.id, overlayName |-> res.ov.name,
   overlayRuleCount |-> Len(res.ov.rules),
   decision |-> res.decision, summary |-> res.summary,
   matchedFindings |-> res.matchedFindings, findings |-> res.matchedFindings,
   conditions |-> res.conditions,
   blockers |-> res.blockers,
   evaluatedAt |-> toISOString(now),
   notes |-> <<>>]

\* Lines 313-333 and 335-357: the two artifacts; appId and programName, which
\* identify the job and its program, are left out of both.
decisionArtifactPublic(app, res, now) ==
  [rulePackId |-> res.pack.id, companyProfileId |-> app.companyProfileId,
   programId |-> app.programId,
   overlayApplied |-> res.ov.applied, overlayId |-> res.ov.id, overlayName |-> res.ov.name,
   overlayRuleCount |-> Len(res.ov.rules),
   decision |-> res.decision, summary |-> res.summary,
   matchedFindings |-> res.matchedFindings, findings |-> res.matchedFindings,
   conditions |-> res.conditions,
   evaluatedAt |-> toISOString(now)]

decisionArtifactRaw(app, res, now) ==
  [rulePackId |-> res.pack.id, rulePackVersion |-> res.pack.rulePackVersion,
   companyProfileId |-> app.companyProfileId,
   programId |-> app.programId,
   overlayApplied |-> res.ov.applied, overlayId |-> res.ov.id, overlayName |-> res.ov.name,
   overlayRuleCount |-> Len(res.ov.rules),
   decision |-> res.decision, summary |-> res.summary,
   matchedFindings |-> res.matchedFindings, conditions |-> res.conditions,
   blockers |-> res.blockers,
   evaluatedAt |-> now,
   notes |-> <<>>]

\* Lines 360-372: the fields of the final write of a complete evaluation.
evaluation(app, now) ==
  LET res == ruleResults(app)
  IN [processingStage |-> "ai_completed",
      decision |-> res.decision,
      decisionArtifactPublic |-> Some(decisionArtifactPublic(app, res, now)),
      decisionArtifactRaw |-> Some(decisionArtifactRaw(app, res, now)),
      aiCompletedAt |-> now,
      updatedAt |-> now,
      lastError |-> "",
      error |-> ""]

\* Lines 148-158 and their four repetitions: the fail-closed write.
failClosedWrite(msg, now) ==
  [processingStage |-> "ai_completed",
   decision |-> "conditional",
   lastError |-> msg,
   error |-> msg,
   aiCompletedAt |-> now,
   updatedAt |-> now]

\* ----------------------------------------------------------------- actions
\* crypto.randomUUID(): an id that no lease and no invocation holds.
randomUUID ==
  LET used == { inv[v].leaseId : v \in Slots } \cup
              { applications[j].workerLease[1].holder :
                  j \in { k \in Jobs : applications[k].workerLease # Null } }
  IN Min({ n \in 1..(Cardinality(used) + 1) : n \notin used })

\* The clock readings an invocation in flight can have taken so far.
PastTimes == { k * TickMs : k \in (InitClock \div TickMs)..(clock \div TickMs) }

\* Invocations are interchangeable: a new one takes the first free slot.
FreeSlot(w) ==
  /\ inv[w].pc = "idle"
  /\ \A v \in Slots : v < w => inv[v].pc # "idle"

\* assertWorkerAuth rejects the request: 401 on a wrong secret; the analysis
\* route answers 500 when no secret is configured (the parsing route lets
\* every request in then).
Unauthorized(w, kind, auth) ==
  /\ FreeSlot(w)
  /\ auth = "bad" \/ (auth = "nosecret" /\ kind = "analyzing")
  /\ inv' = [inv EXCEPT ![w] =
       [IdleInv EXCEPT !.pc = "returned", !.kind = kind,
          !.resp = Some(IF auth = "bad"
                          THEN Response(401, FALSE, Absent, "401: Unauthorized")
                          ELSE Response(500, FALSE, Absent, "500: WORKER_SECRET missing"))]]
  /\ UNCHANGED <<applications, config, clock>>

\* POST up to the result of claimOne...Job: the handler read the clock at
\* `now`, claimOne...Job read it again at `claimNow` and drew a lease id, and
\* the transaction runs at this step.
claimTransaction(w, stage, startedField, now, claimNow) ==
  LET j == claimTarget(stage, claimNow)
      me == [IdleInv EXCEPT !.kind = stage]
  IN /\ FreeSlot(w)
     /\ now <= claimNow
     /\ IF j = 0
          THEN /\ inv' = [inv EXCEPT ![w] =
                    [me EXCEPT !.pc = "returned",
                               !.resp = Some(Response(200, TRUE, 0, "No claimable jobs."))]]
               /\ UNCHANGED applications
          ELSE /\ applications' =
                    setMerge(j, (startedField :> claimNow) @@
                                [workerLease |-> Some(newLease(randomUUID, stage, claimNow)),
                                 updatedAt |-> claimNow])
               /\ inv' = [inv EXCEPT ![w] =
                    [me EXCEPT !.pc = "reread", !.now = now, !.leaseId = randomUUID,
                               !.claimedAt = claimNow, !.ref = j]]
     /\ UNCHANGED <<config, clock>>

claimOneParsingJob(w, now, claimNow) ==
  claimTransaction(w, "parsing", "parsingStartedAt", now, claimNow)

claimOneAnalyzingJob(w, now, claimNow) ==
  claimTransaction(w, "analyzing", "aiStartedAt", now, claimNow)

\* The fields of the snapshot that the analysis handler goes on to use.
snapshot(app) ==
  [companyProfileId |-> app.companyProfileId, programId |-> app.programId,
   extractedTextCombined |-> app.extractedTextCombined]

\* ref.get() and the tests on the snapshot that choose the handler's branch;
\* for a parsing job, also the download and extraction that follow (lines
\* 229-244 and 272-282), which touch no job record.
Reread(w) ==
  LET me == inv[w]
      app == applications[me.ref]
      skipped == [pc |-> "release", reason |-> "skipped", now |-> NoTime,
                  resp |-> Some(Response(200, TRUE, 0, "Job no longer in stage; skipped."))]
  IN /\ me.pc = "reread"
     /\ IF me.kind = "parsing"
          THEN IF app.objectPath = "" THEN inv' = Local(w, [pc |-> "write_missing"])
               ELSE IF app.processingStage # "parsing" THEN inv' = Local(w, skipped)
               ELSE \E o \in ExtractionOutcomes(fileAt(app.objectPath)) :
                      inv' = Local(w, [pc |-> IF o.ok THEN "write_ok" ELSE "write_failed",
                                       out |-> Some(o)])
          ELSE IF app.processingStage # "analyzing" THEN inv' = Local(w, skipped)
               ELSE inv' = Local(w, [pc |-> "evaluate", app |-> Some(snapshot(app))])
     /\ UNCHANGED <<applications, config, clock>>

\* Parsing lines 204-212: the job has no objectPath.
WriteMissingObjectPath(w) ==
  LET me == inv[w]
  IN /\ me.pc = "write_missing"
     /\ applications' = setMerge(me.ref,
          [processingStage |-> "parsing_failed",
           parsingError |-> "Missing required field: objectPath",
           parsingFailedAt |-> me.now,
           updatedAt |-> me.now])
     /\ inv' = Local(w, [pc |-> "release", reason |-> "failed", now |-> NoTime,
                         resp |-> Some(Response(500, FALSE, 0, "Missing required field: objectPath"))])
     /\ UNCHANGED <<config, clock>>

\* Parsing lines 247-261 (and 284-298 after a repair): persist and advance.
WriteParsed(w) ==
  LET me == inv[w]
      o == me.out[1]
  IN /\ me.pc = "write_ok"
     /\ applications' = setMerge(me.ref,
          [extractedTextCombined |-> o.text,
           extractedTextLength |-> Len(o.text),
           extractor |-> o.extractor,
           fallbackUsed |-> o.fallbackUsed,
           processingStage |-> "analyzing",
           parsingCompletedAt |-> me.now,
           parsingError |-> "",
           updatedAt |-> me.now])
     /\ inv' = Local(w, [pc |-> "release", reason |-> "success", out |-> Null,
                         resp |-> Some(Response(200, TRUE, 1, o.extractor))])
     /\ UNCHANGED <<config, clock>>

\* Parsing lines 307-315: catch (e2).
WriteParsingFailed(w) ==
  LET me == inv[w]
      o == me.out[1]
  IN /\ me.pc = "write_failed"
     /\ applications' = setMerge(me.ref,
          [processingStage |-> "parsing_failed",
           parsingError |-> o.error,
           parsingFailedAt |-> me.now,
           updatedAt |-> me.now])
     /\ inv' = Local(w, [pc |-> "release", reason |-> "failed", out |-> Null, now |-> NoTime,
                         resp |-> Some(Response(500, FALSE, Absent, o.error))])
     /\ UNCHANGED <<config, clock>>

\* Analysis lines 142-372: the requirement checks, the evaluation and the write.
Evaluate(w) ==
  LET me == inv[w]
      app == me.app[1]
      msg == failClosedError(app)
      done == evaluation(app, me.now)
  IN /\ me.pc = "evaluate"
     /\ IF msg # ""
          THEN /\ applications' = setMerge(me.ref, failClosedWrite(msg, me.now))
               /\ inv' = Local(w, [pc |-> "release", reason |-> "failed", app |-> Null, now |-> NoTime,
                    resp |-> Some([Response(200, TRUE, 1, msg) EXCEPT
                                     !.decision = "conditional", !.matched = 0,
                                     !.conditionsMatched = 0])])
          ELSE /\ applications' = setMerge(me.ref, done)
               /\ inv' = Local(w, [pc |-> "release", reason |-> "success", app |-> Null, now |-> NoTime,
                    resp |-> Some([Response(200, TRUE, 1, "") EXCEPT
                                     !.decision = done.decision,
                                     !.matched = Len(done.decisionArtifactRaw[1].matchedFindings),
                                     !.conditionsMatched = Len(done.decisionArtifactRaw[1].conditions)])])
     /\ UNCHANGED <<config, clock>>

\* await releaseLease(ref, admin, reason) and the handler's return.
Release(w) ==
  LET me == inv[w]
  IN /\ me.pc = "release"
     /\ applications' = releaseLease(me.ref, me.reason)
     /\ inv' = Local(w, [pc |-> "returned", leaseId |-> 0, claimedAt |-> NoTime, reason |-> ""])
     /\ UNCHANGED <<config, clock>>

\* An awaited store operation throws and leaves the store as it was. Inside
\* the parsing worker's try block (the success write and the success release)
\* the exception reaches catch (e1) and then catch (e2); everywhere else it
\* reaches the handler's outer catch, which answers 500 and releases nothing.
thrown(w) ==
  LET me == inv[w]
      inTry == me.kind = "parsing" /\
               (me.pc = "write_ok" \/ (me.pc = "release" /\ me.reason = "success"))
  IN Local(w,
       IF inTry
         THEN [pc |-> "write_failed", reason |-> "", resp |-> Null,
               out |-> Some([ok |-> FALSE, text |-> <<>>, error |-> "store unavailable",
                             extractor |-> "", fallbackUsed |-> FALSE,
                             e1 |-> "store unavailable"])]
         ELSE [pc |-> "returned", reason |-> "", app |-> Null, out |-> Null,
               now |-> NoTime, leaseId |-> 0, claimedAt |-> NoTime,
               resp |-> Some(Response(500, FALSE, Absent, "store unavailable"))])

Throw(w) ==
  /\ inv[w].pc \in {"reread", "write_missing", "write_ok", "write_failed", "evaluate", "release"}
  /\ inv' = thrown(w)
  /\ UNCHANGED <<applications, config, clock>>

\* Time passes.
Tick ==
  /\ clock + TickMs <= MaxTime
  /\ clock' = clock + TickMs
  /\ UNCHANGED <<applications, config, inv>>

\* ---------------------------------------------------------- specifications
Kinds == {"parsing", "analyzing"}
AuthResults == {"ok", "bad", "nosecret"}

CreationTimes == { t * TickMs : t \in 0..(InitClock \div TickMs) }

Rule(type, pattern, severity) ==
  [ruleId |-> <<"r">> \o pattern, title |-> "t1", severity |-> severity, pattern |-> pattern,
   type |-> type]

GoodFile == [text |-> <<"a">>, malformed |-> "", repairable |-> FALSE]

\* The pipeline: uploaded jobs wait in parsing, some without an objectPath; one
\* company with a one-rule pack; downloads can fail. MaxLoad bounds the jobs
\* and the worker invocations of one behaviour together.
Init ==
  /\ \E n \in 1..MaxJobs, m \in 1..MaxInv :
       /\ n + m <= MaxLoad
       /\ applications \in [1..n ->
            { NewJob("parsing", path, "cp", "", <<>>, t) :
                path \in {"", "docs/a.pdf"}, t \in CreationTimes }]
       /\ inv = [w \in 1..m |-> IdleInv]
  /\ companyProfiles = { [id |-> "cp", rulePackId |-> "rp"] }
  /\ rulePacks = { [id |-> "rp", rulePackVersion |-> "1",
                    rules |-> <<Rule("condition", <<"a">>, "")>>] }
  /\ programs = {}
  /\ overlays = {}
  /\ bucket = [files |-> [p \in {"docs/a.pdf"} |-> GoodFile], faults |-> {"throw"}]
  /\ clock = InitClock

Next ==
  \/ \E w \in Slots, kind \in Kinds, auth \in AuthResults : Unauthorized(w, kind, auth)
  \/ \E w \in Slots, now \in PastTimes, claimNow \in PastTimes : claimOneParsingJob(w, now, claimNow)
  \/ \E w \in Slots, now \in PastTimes, claimNow \in PastTimes : claimOneAnalyzingJob(w, now, claimNow)
  \/ \E w \in Slots : Reread(w)
  \/ \E w \in Slots : WriteMissingObjectPath(w)
  \/ \E w \in Slots : WriteParsed(w)
  \/ \E w \in Slots : WriteParsingFailed(w)
  \/ \E w \in Slots : Evaluate(w)
  \/ \E w \in Slots : Release(w)
  \/ \E w \in Slots : Throw(w)
  \/ Tick

Spec == Init /\ [][Next]_vars

\* The Rule Evaluation Engine alone: one job waiting in analyzing, one
\* invocation, and every configuration of the collections it reads.
RuleUniverse ==
  { Rule(type, pattern, "") : type \in {"", "finding", "condition", "blocker"},
                              pattern \in { <<"a">>, <<"c">> } }
  \cup { Rule("blocker", <<"(">>, ""), Rule("condition", <<" ">>, "info") }

OverlayUniverse ==
  { Rule("blocker", <<"a">>, ""), Rule("condition", <<"a">>, "info"), Rule("finding", <<"c">>, "") }

SeqsUpTo(S, n) == UNION { [1..k -> S] : k \in 0..n }

EvalTexts == { <<>>, <<" ">>, <<"A", "b">> }

InitEval ==
  /\ applications \in [1..1 ->
       { NewJob("analyzing", "docs/a.pdf", cp, pg, text, InitClock) :
           cp \in {"", "cp"}, pg \in {"", "pg"}, text \in EvalTexts }]
  /\ inv = [w \in 1..1 |-> IdleInv]
  /\ \/ /\ companyProfiles \in { {}, { [id |-> "cp", rulePackId |-> ""] } }
        /\ rulePacks = {}
     \/ /\ companyProfiles = { [id |-> "cp", rulePackId |-> "rp"] }
        /\ rulePacks \in { {} } \cup
             { { [id |-> "rp", rulePackVersion |-> "1", rules |-> rs] } :
                 rs \in SeqsUpTo(RuleUniverse, MaxRules) }
  /\ \/ /\ programs \in { {}, { [id |-> "pg", activeOverlayId |-> ""] } }
        /\ overlays = {}
     \/ /\ programs = { [id |-> "pg", activeOverlayId |-> "ov"] }
        /\ overlays \in { {} } \cup
             { { [id |-> "ov", name |-> "", rules |-> rs] } :
                 rs \in SeqsUpTo(OverlayUniverse, MaxOverlayRules) }
  /\ bucket = [files |-> [p \in {"docs/a.pdf"} |-> GoodFile], faults |-> {}]
  /\ clock = InitClock

NextEval ==
  \/ \E w \in Slots, auth \in AuthResults : Unauthorized(w, "analyzing", auth)
  \/ \E w \in Slots, now \in PastTimes, claimNow \in PastTimes : claimOneAnalyzingJob(w, now, claimNow)
  \/ \E w \in Slots : Reread(w)
  \/ \E w \in Slots : Evaluate(w)
  \/ \E w \in Slots : Release(w)
  \/ \E w \in Slots : Throw(w)
  \/ Tick

SpecEval == InitEval /\ [][NextEval]_vars

\* The Parsing Worker alone: one job waiting in parsing, one invocation, and
\* every stored document and download fault of the universe below.
ParseTexts == { <<>>, <<" ">>, <<"a">>, <<"\r", "\n", "a", " ">> }

FileUniverse ==
  [text : ParseTexts, malformed : {"", "xref", "other"}, repairable : BOOLEAN]

InitParse ==
  /\ applications \in [1..1 ->
       { NewJob("parsing", path, "cp", "", <<>>, InitClock) :
           path \in {"", "docs/a.pdf", "docs/none.pdf"} }]
  /\ inv = [w \in 1..1 |-> IdleInv]
  /\ companyProfiles = {}
  /\ rulePacks = {}
  /\ programs = {}
  /\ overlays = {}
  /\ \E f \in FileUniverse, faults \in SUBSET {"small", "html", "padded", "corrupt", "throw"} :
       bucket = [files |-> [p \in {"docs/a.pdf"} |-> f], faults |-> faults]
  /\ clock = InitClock

NextParse ==
  \/ \E w \in Slots, auth \in AuthResults : Unauthorized(w, "parsing", auth)
  \/ \E w \in Slots, now \in PastTimes, claimNow \in PastTimes : claimOneParsingJob(w, now, claimNow)
  \/ \E w \in Slots : Reread(w)
  \/ \E w \in Slots : WriteMissingObjectPath(w)
  \/ \E w \in Slots : WriteParsed(w)
  \/ \E w \in Slots : WriteParsingFailed(w)
  \/ \E w \in Slots : Release(w)
  \/ \E w \in Slots : Throw(w)
  \/ Tick

SpecParse == InitParse /\ [][NextParse]_vars

\* -------------------------------------------------- the pipeline under ticks
\* The pipeline as the drivers run it for ever: every tick posts to both
\* workers, so invocations of each worker keep starting, each reading the
\* clock as it starts, and a finished invocation's slot serves the next
\* request. bucket.outages is the number of store failures still to come.

\* The next request is served: the slot of a finished invocation is free again.
Recycle(w) ==
  /\ inv[w].pc = "returned"
  /\ inv' = [inv EXCEPT ![w] = IdleInv]
  /\ UNCHANGED <<applications, config, clock>>

\* An awaited store operation throws, as in Throw, while failures remain.
Outage(w) ==
  /\ bucket.outages > 0
  /\ inv[w].pc \in {"reread", "write_missing", "write_ok", "write_failed", "evaluate", "release"}
  /\ inv' = thrown(w)
  /\ bucket' = [bucket EXCEPT !.outages = @ - 1]
  /\ UNCHANGED <<applications, companyProfiles, rulePacks, programs, overlays, clock>>

\* Time passes while a lease is in force: one lease's length at a time, so
\* that every lease taken before the step has run out after it. Each step
\* outlives a lease, so MaxElapses, more than the leases the jobs can take,
\* never holds the clock back.
Elapse ==
  /\ \E j \in Jobs : leaseActive(applications[j], clock)
  /\ clock < InitClock + MaxElapses * TickMs
  /\ clock' = clock + TickMs
  /\ UNCHANGED <<applications, config, inv>>

\* What an invocation in flight does next.
Continue(w) ==
  \/ Reread(w)
  \/ WriteMissingObjectPath(w)
  \/ WriteParsed(w)
  \/ WriteParsingFailed(w)
  \/ Evaluate(w)
  \/ Release(w)
  \/ Recycle(w)

InitProgress ==
  /\ applications \in [1..MaxApps ->
       { NewJob("parsing", path, "cp", "", <<>>, InitClock) : path \in {"", "docs/a.pdf"} }]
  /\ inv = [w \in 1..ProgressSlots |-> IdleInv]
  /\ companyProfiles = { [id |-> "cp", rulePackId |-> "rp"] }
  /\ rulePacks = { [id |-> "rp", rulePackVersion |-> "1",
                    rules |-> <<Rule("condition", <<"a">>, "")>>] }
  /\ programs = {}
  /\ overlays = {}
  /\ bucket = [files |-> [p \in {"docs/a.pdf"} |-> GoodFile], faults |-> {"throw"},
               outages |-> MaxCrashes]
  /\ clock = InitClock

NextProgress ==
  \/ \E w \in Slots : claimOneParsingJob(w, clock, clock)
  \/ \E w \in Slots : claimOneAnalyzingJob(w, clock, clock)
  \/ \E w \in Slots : Continue(w)
  \/ \E w \in Slots : Outage(w)
  \/ Elapse

\* Continue(w) can take a step exactly when slot w holds an invocation that
\* has claimed a job or has returned: each of its disjuncts is guarded by one
\* value of pc and changes inv[w].
Running(w) ==
  inv[w].pc \in {"reread", "write_missing", "write_ok", "write_failed", "evaluate",
                 "release", "returned"}

\* Ticks recur and reach both workers, every invocation goes on until it
\* returns, and the clock advances. The condition on Continue(w) is
\* WF_vars(Continue(w)) with ENABLED <<Continue(w)>>_vars written as Running(w).
FairProgress ==
  /\ SF_vars(\E w \in Slots : claimOneParsingJob(w, clock, clock))
  /\ SF_vars(\E w \in Slots : claimOneAnalyzingJob(w, clock, clock))
  /\ \A w \in 1..ProgressSlots : []<>(~Running(w)) \/ []<><<Continue(w)>>_vars
  /\ WF_vars(Elapse)

SpecProgress == InitProgress /\ [][NextProgress]_vars /\ FairProgress

\* ---------------------------------------------------------- the tick drivers
\* The two routes that drive the pipeline: the cron route ("cron") and
\* /api/debug/run ("debug"). A driver is an invocation whose out is the list
\* of worker results so far and whose reason is the mode of a debug run.
WorkerPaths == <<"/api/worker/watchdog", "/api/worker/files/process", "/api/worker/ai/process">>

\* What a worker route can answer: the HTTP status and the ok of its body. The
\* parsing and analysis routes answer 200 with ok true, and 401 or 500 with ok
\* false; the watchdog route, which is not among the sources, is taken to
\* follow the same convention.
WorkerAnswers(path) ==
  { [status |-> 200, ok |-> TRUE], [status |-> 401, ok |-> FALSE], [status |-> 500, ok |-> FALSE] }

\* callWorker / callJson: the result the driver keeps of an answer. ok is
\* res.ok, bodyOk is body.ok.
callResult(path, answer) ==
  [path |-> path, status |-> answer.status,
   ok |-> answer.status >= 200 /\ answer.status <= 299, bodyOk |-> answer.ok]

\* An anyFailed that looks at the last result only.
anyFailedLast(kind, results) ==
  LET x == results[Len(results)]
  IN IF kind = "cron" THEN x.status >= 400 \/ ~x.bodyOk ELSE ~x.ok

\* cron: results.some((x) => x.status >= 400 || x.body?.ok === false)
\* debug: !watchdog.ok || !files.ok || !ai.ok
anyFailed(kind, results) ==
  IF kind = "cron"
    THEN \E i \in 1..Len(results) : results[i].status >= 400 \/ ~results[i].bodyOk
    ELSE \E i \in 1..Len(results) : ~results[i].ok

\* The driver's answer with the tick it ran. The cron route answers 500 with
\* ok false when anyFailed; the debug route answers 200 with ok true and
\* carries anyFailed inside its tick.
tickReport(kind, results) ==
  LET failed == anyFailed(kind, results)
  IN [status |-> IF kind = "cron" /\ failed THEN 500 ELSE 200,
      ok |-> IF kind = "cron" THEN ~failed ELSE TRUE,
      tick |-> TRUE, anyFailed |-> failed, results |-> results]

\* The driver's answer from its catch block or an early return: no tick.
tickAborted(status) ==
  [status |-> status, ok |-> FALSE, tick |-> FALSE, anyFailed |-> FALSE, results |-> <<>>]

\* The request arrives. The cron route rejects a caller that is neither the
\* scheduler nor holds the secret (401); the debug route answers 500 when it
\* cannot tell its base URL or has no worker secret; the cron route's first
\* callWorker throws when there is no worker secret (500).
TickStart(d, kind, mode, request) ==
  /\ inv[d].pc = "idle"
  /\ kind = "cron" => mode = "tick"
  /\ request = "unauthorized" => kind = "cron"
  /\ request = "nohost" => kind = "debug"
  /\ inv' = Local(d,
       IF request = "ok" THEN [pc |-> "call", kind |-> kind, reason |-> mode]
       ELSE [pc |-> "returned", kind |-> kind, reason |-> mode,
             resp |-> Some(tickAborted(IF request = "unauthorized" THEN 401 ELSE 500))])
  /\ UNCHANGED <<applications, config, clock>>

\* The next worker of the list answers. After the third answer the tick is
\* complete: the driver reports it, a debug run in mode full first calls its
\* seed, requeue and share routes.
CallWorker(d, answer) ==
  LET me == inv[d]
      path == WorkerPaths[Len(me.out) + 1]
      results == Append(me.out, callResult(path, answer))
  IN /\ me.pc = "call"
     /\ answer \in WorkerAnswers(path)
     /\ inv' = Local(d,
          IF Len(results) < Len(WorkerPaths) THEN [out |-> results]
          ELSE IF me.reason = "full" THEN [pc |-> "extras", out |-> results]
          ELSE [pc |-> "returned", out |-> results,
                resp |-> Some(tickReport(me.kind, results))])
     /\ UNCHANGED <<applications, config, clock>>

\* Mode full: the three further calls were answered.
CallExtras(d) ==
  /\ inv[d].pc = "extras"
  /\ inv' = Local(d, [pc |-> "returned", resp |-> Some(tickReport(inv[d].kind, inv[d].out))])
  /\ UNCHANGED <<applications, config, clock>>

\* fetch rejects (the route cannot be reached): the driver's catch block
\* answers 500 and the calls not yet made are not made.
FetchThrows(d) ==
  /\ inv[d].pc \in {"call", "extras"}
  /\ inv' = Local(d, [pc |-> "returned", resp |-> Some(tickAborted(500))])
  /\ UNCHANGED <<applications, config, clock>>

\* The drivers alone: requests to both routes, every answer of every worker.
InitTick ==
  /\ applications = <<>>
  /\ inv = [d \in 1..MaxDrivers |-> IdleInv]
  /\ companyProfiles = {}
  /\ rulePacks = {}
  /\ programs = {}
  /\ overlays = {}
  /\ bucket = [files |-> <<>>, faults |-> {}]
  /\ clock = InitClock

NextTick ==
  \/ \E d \in Slots, kind \in {"cron", "debug"}, mode \in {"tick", "full"},
        request \in {"ok", "unauthorized", "nohost", "nosecret"} : TickStart(d, kind, mode, request)
  \/ \E d \in Slots, answer \in WorkerAnswers(WorkerPaths[1]) : CallWorker(d, answer)
  \/ \E d \in Slots : CallExtras(d)
  \/ \E d \in Slots : FetchThrows(d)

SpecTick == InitTick /\ [][NextTick]_vars

\* ------------------------------------------------- application statuses
\* The underwriting status of an application, apart from its processingStage.
APP_STATUSES == <<"New", "In Review", "Approved", "Denied", "Closed">>
Statuses == { APP_STATUSES[i] : i \in DOMAIN APP_STATUSES }

TRANSITIONS ==
  [s \in Statuses |->
     CASE s = "New" -> <<"In Review">>
       [] s = "In Review" -> <<"Approved", "Denied">>
       [] s = "Approved" -> <<"Closed">>
       [] s = "Denied" -> <<"Closed">>
       [] s = "Closed" -> <<>>]

\* Array.prototype.includes
includes(list, x) == \E i \in DOMAIN list : list[i] = x

canTransition(from, to) == IF from = to THEN TRUE ELSE includes(TRANSITIONS[from], to)

allowedNextStatuses(from) == <<from>> \o TRANSITIONS[from]

\* A validation without the business rule on approval.
validateStatusChangeUnassigned(from, to, underwriterId) ==
  IF from = to THEN ""
  ELSE IF ~canTransition(from, to) THEN "Invalid transition"
  ELSE ""

\* validateStatusChange: the error message, or "" for null.
validateStatusChange(from, to, underwriterId) ==
  IF from = to THEN ""
  ELSE IF ~canTransition(from, to) THEN "Invalid transition"
  ELSE IF to = "Approved" /\ (underwriterId = <<>> \/ trim(underwriterId) = <<>>)
    THEN "Cannot approve until an underwriter is assigned."
  ELSE ""

NewApplication == [status |-> "New", underwriterId |-> <<>>]

UnderwriterIds == { <<>>, <<" ">>, <<"u", "1">> }

\* The underwriter field of the application is edited.
AssignUnderwriter(a, u) ==
  /\ applications[a].underwriterId # u
  /\ applications' = [applications EXCEPT ![a].underwriterId = u]
  /\ UNCHANGED <<config, clock, inv>>

\* A status change is requested: it is validated against the application as
\* it stands and written when the validation returns null. The invocation
\* keeps the request and the verdict.
ChangeStatus(w, a, to) ==
  LET app == applications[a]
      error == validateStatusChange(app.status, to, app.underwriterId)
  IN /\ applications' = IF error = "" THEN [applications EXCEPT ![a].status = to]
                        ELSE applications
     /\ inv' = Local(w, [pc |-> "returned", kind |-> "status", ref |-> a,
                         out |-> Some([from |-> app.status, to |-> to,
                                       underwriterId |-> app.underwriterId]),
                         resp |-> Some(error)])
     /\ UNCHANGED <<config, clock>>

InitStatus ==
  /\ applications = [a \in 1..MaxApps |-> NewApplication]
  /\ inv = <<IdleInv>>
  /\ companyProfiles = {}
  /\ rulePacks = {}
  /\ programs = {}
  /\ overlays = {}
  /\ bucket = [files |-> <<>>, faults |-> {}]
  /\ clock = InitClock

NextStatus ==
  \/ \E a \in Jobs, u \in UnderwriterIds : AssignUnderwriter(a, u)
  \/ \E w \in Slots, a \in Jobs, to \in Statuses : ChangeStatus(w, a, to)

SpecStatus == InitStatus /\ [][NextStatus]_vars

\* ------------------------------------------------------------- properties
\* The invocation is between its claim and its return.
Holding(w) ==
  inv[w].pc \in {"reread", "write_missing", "write_ok", "write_failed", "evaluate", "release"}

\* The step is a write of invocation w to its job other than the claim.
WriteBy(w) ==
  /\ inv[w].pc \in {"write_missing", "write_ok", "write_failed", "evaluate", "release"}
  /\ inv'[w] # inv[w]
  /\ applications'[inv[w].ref] # applications[inv[w].ref]

\* The job carries a lease that no invocation in flight holds: it was claimed
\* and the claimant went away without a release.
Abandoned(j) ==
  /\ applications[j].workerLease # Null
  /\ \A w \in Slots : ~(Holding(w) /\ inv[w].leaseId = applications[j].workerLease[1].holder)

NoJobClaimed == Some(Response(200, TRUE, 0, "No claimable jobs."))

\* The step is a successful claim of job j by invocation w.
ClaimBy(w, j) ==
  inv[w].pc = "idle" /\ inv'[w].pc = "reread" /\ inv'[w].ref = j

\* C1: claimOne has one winner per eligible state. An invocation obtains a job
\* only if the job is in its stage and its lease is absent or expired at the
\* invocation's clock reading, and the claim installs the invocation's own
\* lease; and while an invocation in flight holds the job's lease, every
\* claimOne that reads the clock before that lease's expiresAt leaves the job
\* alone (it returns "no job claimed" or takes another job).
C1_MutualExclusion ==
  /\ [][\A w \in Slots, j \in Jobs :
          ClaimBy(w, j) =>
            /\ applications[j].processingStage = inv'[w].kind
            /\ \/ applications[j].workerLease = Null
               \/ applications[j].workerLease[1].expiresAt <= inv'[w].claimedAt
            /\ applications'[j].workerLease =
                 Some(newLease(inv'[w].leaseId, inv'[w].kind, inv'[w].claimedAt))
            /\ \A v \in Slots \ {w} : inv'[v].leaseId # inv'[w].leaseId
            /\ \A k \in Jobs \ {j} : applications'[k] = applications[k]]_vars
  /\ [](\A w \in Slots, t \in PastTimes :
          (/\ Holding(w)
           /\ applications[inv[w].ref].workerLease # Null
           /\ applications[inv[w].ref].workerLease[1].holder = inv[w].leaseId
           /\ t < applications[inv[w].ref].workerLease[1].expiresAt)
            => \A stage \in {"parsing", "analyzing"} : claimTarget(stage, t) # inv[w].ref)

\* One job, two parsing invocations that ran claimOne at the same instant: one
\* holds the job, the other was answered "no job claimed".
C1_Witness ==
  /\ Cardinality(Jobs) = 1
  /\ clock = InitClock
  /\ \E v, w \in Slots :
       /\ inv[w].kind = "parsing" /\ Holding(w) /\ inv[w].ref = 1
       /\ applications[1].workerLease # Null
       /\ applications[1].workerLease[1].holder = inv[w].leaseId
       /\ inv[v].kind = "parsing" /\ inv[v].pc = "returned" /\ inv[v].resp = NoJobClaimed

StageOrder ==
  { <<"parsing", "analyzing">>, <<"analyzing", "ai_completed">>, <<"parsing", "parsing_failed">> }

\* C2: every step that changes a job's processingStage moves it along
\* parsing -> analyzing -> ai_completed or parsing -> parsing_failed, in every
\* interleaving, slow workers whose job was reclaimed included.
C2_StageMonotone ==
  [][\A j \in Jobs :
       applications'[j].processingStage # applications[j].processingStage
         => <<applications[j].processingStage, applications'[j].processingStage>> \in StageOrder]_vars

Eligible(stage, now) ==
  { j \in Jobs : applications[j].processingStage = stage /\ ~leaseActive(applications[j], now) }

\* C4: claimOne(stage) claims the eligible job with the smallest updatedAt, and
\* returns "no job claimed" only when no job of the stage is eligible.
C4_ClaimsOldestEligible ==
  \A stage \in {"parsing", "analyzing"}, t \in PastTimes :
    IF Eligible(stage, t) = {} THEN claimTarget(stage, t) = 0
    ELSE /\ claimTarget(stage, t) \in Eligible(stage, t)
         /\ \A k \in Eligible(stage, t) :
              applications[claimTarget(stage, t)].updatedAt <= applications[k].updatedAt

\* C5: an invocation whose re-read finds the job in another stage than its own
\* goes on to the release with reason 'skipped' and processed = 0, whatever
\* the job record holds, and that release changes only workerLease,
\* leaseReleasedAt, leaseReleaseReason and updatedAt.
C5_SkipOnStageDrift ==
  [][\A w \in Slots :
       LET j == inv[w].ref
           released == inv[w].pc = "release" /\ inv[w].reason = "skipped" /\ WriteBy(w)
       IN /\ (/\ inv[w].pc = "reread"
              /\ applications[j].processingStage # inv[w].kind
              /\ inv'[w].pc \notin {"reread", "returned"})
               => /\ inv'[w].pc = "release"
                  /\ inv'[w].reason = "skipped"
                  /\ inv'[w].resp[1].processed = 0
          /\ released =>
               applications'[j] =
                 [applications[j] EXCEPT !.workerLease = Null,
                                         !.leaseReleasedAt = clock,
                                         !.leaseReleaseReason = "skipped",
                                         !.updatedAt = clock]]_vars

\* C6: apart from the claim, an invocation writes to a job only while the
\* job's workerLease.holder is the lease id it obtained and that lease has not
\* expired.
C6_WritesGuardedByLease ==
  [][\A w \in Slots :
       WriteBy(w) =>
         LET app == applications[inv[w].ref]
         IN /\ app.workerLease # Null
            /\ app.workerLease[1].holder = inv[w].leaseId
            /\ leaseActive(app, clock)]_vars

\* C7: no job has a parsing invocation and an analysis invocation both
\* between their claim and their return.
C7_OneWorkerTypePerJob ==
  \A v, w \in Slots :
    ~(/\ Holding(v) /\ inv[v].kind = "parsing"
      /\ Holding(w) /\ inv[w].kind = "analyzing"
      /\ inv[v].ref = inv[w].ref)

\* The rules a complete evaluation of the job merges: the company's pack, then
\* the overlay of the job's program.
mergedRules(app) ==
  tagSource(theDoc(lookup(rulePacks, theDoc(lookup(companyProfiles, app.companyProfileId)).rulePackId)).rules,
            "base") \o resolveOverlay(app).rules

\* The positions of the merged rules of the type that match the text.
matchedOfType(app, type) ==
  { i \in 1..Len(mergedRules(app)) :
      /\ ruleType(mergedRules(app)[i]) = type
      /\ ruleMatches(mergedRules(app)[i], app.extractedTextCombined) }

\* C8: the decision a complete evaluation writes is 'fail' iff a blocker rule
\* matched, else 'conditional' iff a condition rule matched, else 'pass'; and
\* the matched blockers, conditions and findings are each recorded in their
\* own bucket.
C8_DecisionRule ==
  \A j \in Jobs :
    applications[j].decisionArtifactRaw # Null =>
      LET app == applications[j]
          raw == app.decisionArtifactRaw[1]
      IN /\ app.decision =
              IF matchedOfType(app, "blocker") # {} THEN "fail"
              ELSE IF matchedOfType(app, "condition") # {} THEN "conditional"
              ELSE "pass"
         /\ raw.decision = app.decision
         /\ Len(raw.blockers) = Cardinality(matchedOfType(app, "blocker"))
         /\ Len(raw.conditions) = Cardinality(matchedOfType(app, "condition"))
         /\ Len(raw.matchedFindings) = Cardinality(matchedOfType(app, "finding"))

\* A blocker and a condition both matched: the decision is 'fail' and the
\* condition is still recorded.
C8_Witness ==
  \E j \in Jobs :
    /\ applications[j].decisionArtifactRaw # Null
    /\ applications[j].decision = "fail"
    /\ Len(applications[j].decisionArtifactRaw[1].conditions) > 0

\* The job lacks what the evaluation needs.
missingData(app) ==
  \/ app.companyProfileId = ""
  \/ \A i \in 1..Len(app.extractedTextCombined) : IsSpace(app.extractedTextCombined[i])
  \/ lookup(companyProfiles, app.companyProfileId) = {}
  \/ \E c \in lookup(companyProfiles, app.companyProfileId) :
       c.rulePackId = "" \/ lookup(rulePacks, c.rulePackId) = {}

\* C9: an analysis invocation that claimed a job lacking companyProfileId,
\* text, company profile, rulePackId or rule pack, and ran to its end, leaves
\* the job in ai_completed with decision 'conditional', a non-empty error and
\* lastError, the lease released with reason 'failed', and answers with 0
\* matched findings and 0 matched conditions.
C9_FailClosed ==
  \A w \in Slots :
    (/\ inv[w].kind = "analyzing"
     /\ inv[w].pc = "returned"
     /\ inv[w].ref # 0
     /\ inv[w].resp[1].status # 500
     /\ missingData(applications[inv[w].ref]))
      => LET app == applications[inv[w].ref]
             resp == inv[w].resp[1]
         IN /\ app.processingStage = "ai_completed"
            /\ app.decision = "conditional"
            /\ app.error # "" /\ app.lastError # ""
            /\ app.workerLease = Null
            /\ app.leaseReleaseReason = "failed"
            /\ resp.decision = "conditional"
            /\ resp.matched = 0 /\ resp.conditionsMatched = 0

\* A job with whitespace text went through the analysis worker.
C9_Witness ==
  \E w \in Slots :
    /\ inv[w].kind = "analyzing" /\ inv[w].pc = "returned" /\ inv[w].ref # 0
    /\ inv[w].resp[1].status = 200
    /\ applications[inv[w].ref].extractedTextCombined = <<" ">>
    /\ applications[inv[w].ref].companyProfileId = "cp"
    /\ applications[inv[w].ref].error = "Missing extractedTextCombined (cannot evaluate rules)"

\* C10: every write that changes a job's processingStage sets updatedAt to a
\* value not smaller than the job's updatedAt before the write.
C10_UpdatedAtMonotone ==
  [][\A j \in Jobs :
       applications'[j].processingStage # applications[j].processingStage
         => applications'[j].updatedAt >= applications[j].updatedAt]_vars

\* The answers of an authentication failure and of an infrastructure error.
AuthFailure == { "401: Unauthorized" }
InfrastructureError == { "500: WORKER_SECRET missing", "store unavailable" }

\* C11: a worker POST answers 200 when no job was claimable and when the
\* claimed job ended in a handled failure; 401 only for an authentication
\* failure and 500 only for an infrastructure or unexpected error; processed,
\* where the answer carries it, is 0 or 1.
C11_TriggerStatus ==
  \A w \in Slots :
    inv[w].pc = "returned" =>
      LET r == inv[w].resp[1]
      IN /\ r.status \in {200, 401, 500}
         /\ r.status = 401 => r.msg \in AuthFailure
         /\ r.status = 500 => r.msg \in InfrastructureError
         /\ r.status = 200 => r.processed \in {0, 1}
         /\ r.processed \in {Absent, 0, 1}

EmptyTextErrors ==
  { "PDF parsed but extractedText was empty.", "Repair succeeded but extractedText was empty." }

\* C12: a job the Parsing Worker advanced to analyzing carries the text of its
\* document, normalised and trimmed and not empty, with extractedTextLength
\* its length and parsingError null; an invocation whose extraction yielded
\* an empty text leaves the job in parsing_failed, never in analyzing.
C12_NoBlankAdvance ==
  \A j \in Jobs :
    LET app == applications[j]
    IN /\ app.processingStage = "analyzing" =>
            /\ app.extractedTextCombined # <<>>
            /\ app.extractedTextCombined = normalizeText(fileAt(app.objectPath).text)
            /\ app.extractedTextLength = Len(app.extractedTextCombined)
            /\ app.parsingError = ""
       /\ \A w \in Slots :
            (inv[w].pc = "returned" /\ inv[w].ref = j /\ inv[w].resp[1].msg \in EmptyTextErrors)
              => /\ app.processingStage = "parsing_failed"
                 /\ app.parsingError \in EmptyTextErrors
                 /\ app.extractedTextCombined = <<>>

\* A document whose text needed normalising was advanced with the normalised text.
C12_Witness ==
  /\ applications[1].processingStage = "analyzing"
  /\ bucket.files["docs/a.pdf"].text = <<"\r", "\n", "a", " ">>
  /\ applications[1].extractedTextCombined = <<"a">>
  /\ applications[1].extractedTextLength = 1

\* C13: while a job sits abandoned in its stage under a lease that has not
\* expired, a claimOne of that stage still claims a job whenever another job
\* of the stage is eligible, whatever the updatedAt values of the two.
C13_FailureIsolation ==
  \A j \in Jobs, t \in PastTimes :
    (/\ Abandoned(j)
     /\ leaseActive(applications[j], t)
     /\ Eligible(applications[j].processingStage, t) \ {j} # {})
      => claimTarget(applications[j].processingStage, t)
           \in Eligible(applications[j].processingStage, t)

\* The answers with which an invocation reports that processing of its job failed.
FailureAnswer(r) ==
  \/ r.status = 500
  \/ r.status = 200 /\ r.processed = 1 /\ r.decision = "conditional" /\ r.msg # ""

\* C14: after an invocation that claimed a job and ended in a failure
\* (missing objectPath, exhausted extraction, a fail-closed evaluation, an
\* unexpected exception after the claim), the job record holds a non-empty
\* error string and a failure or completion timestamp.
C14_FailureVisible ==
  \A w \in Slots :
    (inv[w].pc = "returned" /\ inv[w].ref # 0 /\ FailureAnswer(inv[w].resp[1]))
      => LET app == applications[inv[w].ref]
         IN \/ app.parsingError # "" /\ app.parsingFailedAt # NoTime
            \/ app.error # "" /\ app.lastError # "" /\ app.aiCompletedAt # NoTime

\* The release reason that matches the answer the invocation prepared.
expectedReason(r) ==
  IF r.status = 200 /\ r.processed = 0 THEN "skipped"
  ELSE IF FailureAnswer(r) THEN "failed"
  ELSE "success"

\* The step is the return of invocation w after a claim.
ReturnOf(w) ==
  inv[w].pc # "returned" /\ inv'[w].pc = "returned" /\ inv'[w].ref # 0

\* C15: an invocation that claimed a job returns either through a release, its
\* last write to the job, which sets workerLease to null and records the
\* reason matching its outcome (success / skipped / failed), or through the
\* catch-all with a 500 and no write at all.
C15_ReleaseOnControlledPaths ==
  [][\A w \in Slots :
       ReturnOf(w) =>
         LET j == inv'[w].ref
             r == inv'[w].resp[1]
         IN \/ /\ inv[w].pc = "release"
               /\ r = inv[w].resp[1]
               /\ applications'[j].workerLease = Null
               /\ applications'[j].leaseReleaseReason = expectedReason(r)
               /\ applications'[j].leaseReleasedAt = clock
               /\ applications'[j].processingStage = applications[j].processingStage
            \/ /\ r.status = 500 /\ r.msg \in InfrastructureError
               /\ applications' = applications]_vars

\* An invocation skipped a job that had left its stage and released it.
C15_Witness ==
  \E w \in Slots :
    /\ inv[w].pc = "returned" /\ inv[w].ref # 0
    /\ inv[w].resp[1].status = 200 /\ inv[w].resp[1].processed = 0
    /\ applications[inv[w].ref].workerLease = Null
    /\ applications[inv[w].ref].leaseReleaseReason = "skipped"

\* C16: the Rule Evaluation Engine writes a job's decision and artifacts at
\* most once: every evaluation write finds the job without a decision and
\* not yet in ai_completed.
C16_DecisionWrittenOnce ==
  [][\A w \in Slots :
       (inv[w].pc = "evaluate" /\ WriteBy(w)) =>
         /\ applications[inv[w].ref].decision = ""
         /\ applications[inv[w].ref].processingStage # "ai_completed"]_vars

\* C17: release sets workerLease to null and records leaseReleasedAt and the
\* reason; and whether the release write succeeds or fails, the invocation
\* returns the answer it had prepared and the stage of the job stays as it
\* was: a failed release is not surfaced.
C17_ReleaseNeverFailsLoudly ==
  [][\A w \in Slots :
       (inv[w].pc = "release" /\ inv'[w] # inv[w]) =>
         LET j == inv[w].ref
         IN /\ inv'[w].pc = "returned"
            /\ inv'[w].resp = inv[w].resp
            /\ applications'[j].processingStage = applications[j].processingStage
            /\ applications' # applications =>
                 /\ applications'[j].workerLease = Null
                 /\ applications'[j].leaseReleasedAt = clock
                 /\ applications'[j].leaseReleaseReason = inv[w].reason]_vars

\* The extractor's error on a malformed cross-reference table.
XrefErrors == { "bad XRef entry" }

\* C18: a success write of the Parsing Worker has fallbackUsed = true and the
\* repaired extractor tag exactly when the primary path raised the
\* cross-reference error and the repaired bytes gave a non-empty text; every
\* other success write has fallbackUsed = false and extractor 'pdf-parse';
\* after a primary error of another kind the repair is not tried and that
\* error is the one reported; a success write leaves the job in analyzing.
C18_RepairFallbackOutcome ==
  /\ \A w \in Slots :
       inv[w].pc \in {"write_ok", "write_failed"} =>
         LET o == inv[w].out[1]
             file == fileAt(applications[inv[w].ref].objectPath)
         IN /\ o.ok => /\ o.text # <<>>
                       /\ o.fallbackUsed <=> o.e1 \in XrefErrors
                       /\ ~o.fallbackUsed => o.e1 = ""
                       /\ o.fallbackUsed => file.repairable
                       /\ o.extractor = IF o.fallbackUsed THEN "pdf-parse+pdf-lib-repair"
                                        ELSE "pdf-parse"
            /\ (~o.ok /\ o.e1 \notin XrefErrors) => o.error = o.e1
            /\ inv[w].pc = "write_ok" <=> o.ok
  /\ \A j \in Jobs :
       applications[j].processingStage = "analyzing" =>
         /\ applications[j].extractor \in {"pdf-parse", "pdf-parse+pdf-lib-repair"}
         /\ applications[j].fallbackUsed <=> applications[j].extractor = "pdf-parse+pdf-lib-repair"
         /\ applications[j].fallbackUsed =>
              /\ fileAt(applications[j].objectPath).repairable
              /\ \/ fileAt(applications[j].objectPath).malformed = "xref"
                 \/ "corrupt" \in bucket.faults
  /\ \A w \in Slots :
       (inv[w].pc = "release" /\ inv[w].reason = "success") =>
         /\ applications[inv[w].ref].processingStage = "analyzing"
         /\ inv[w].resp[1].msg = applications[inv[w].ref].extractor

\* A document with a bad cross-reference table was repaired and advanced.
C18_Witness ==
  /\ applications[1].processingStage = "analyzing"
  /\ applications[1].fallbackUsed
  /\ applications[1].extractor = "pdf-parse+pdf-lib-repair"
  /\ bucket.files["docs/a.pdf"].malformed = "xref"
  /\ bucket.faults = {}

\* C19: the write for a missing objectPath sets parsing_failed with a
\* parsingError and parsingFailedAt and is followed by a release with reason
\* 'failed'; and once such a job is failed and released, no invocation of
\* either worker claims or modifies it again.
C19_MissingObjectPathPermanent ==
  /\ [][\A w \in Slots :
          (inv[w].pc = "write_missing" /\ WriteBy(w)) =>
            /\ applications'[inv[w].ref].processingStage = "parsing_failed"
            /\ applications'[inv[w].ref].parsingError # ""
            /\ applications'[inv[w].ref].parsingFailedAt # NoTime
            /\ inv'[w].pc = "release" /\ inv'[w].reason = "failed"]_vars
  /\ [][\A j \in Jobs :
          (/\ applications[j].objectPath = ""
           /\ applications[j].processingStage = "parsing_failed"
           /\ applications[j].workerLease = Null
           /\ applications[j].leaseReleaseReason = "failed")
            => applications'[j] = applications[j]]_vars

\* C20: no step of the pipeline changes the set of jobs or a job's objectPath,
\* companyProfileId or programId.
C20_PipelineFrame ==
  [][/\ DOMAIN applications' = DOMAIN applications
     /\ \A j \in Jobs :
          /\ applications'[j].objectPath = applications[j].objectPath
          /\ applications'[j].companyProfileId = applications[j].companyProfileId
          /\ applications'[j].programId = applications[j].programId]_vars

\* A job went through both workers and was released; its references are in place.
C20_Witness ==
  \E j \in Jobs :
    /\ applications[j].processingStage = "ai_completed"
    /\ applications[j].decisionArtifactRaw # Null
    /\ applications[j].workerLease = Null
    /\ applications[j].leaseReleaseReason = "success"
    /\ applications[j].objectPath = "docs/a.pdf"
    /\ applications[j].companyProfileId = "cp"

\* The started-at marker of the worker's claim.
startedField(kind) == IF kind = "parsing" THEN "parsingStartedAt" ELSE "aiStartedAt"

\* C21: a claimOne that returns "no job claimed" changes no job record; one
\* that claims job j writes to j only workerLease = {holder: a fresh id,
\* stage: the worker's stage, claimedAt: now, expiresAt: now + 5 minutes}, the
\* started-at marker and updatedAt, both now, and changes no other job.
C21_ClaimWrites ==
  [][\A w \in Slots :
       (inv[w].pc = "idle" /\ inv'[w].pc # "idle") =>
         IF inv'[w].pc = "returned" THEN applications' = applications
         ELSE LET j == inv'[w].ref
                  t == inv'[w].claimedAt
                  lease == [holder |-> inv'[w].leaseId, stage |-> inv'[w].kind,
                            claimedAt |-> t, expiresAt |-> t + 5 * 60 * 1000]
              IN /\ inv'[w].pc = "reread"
                 /\ \A v \in Slots : inv[v].leaseId # inv'[w].leaseId
                 /\ applications[j].workerLease # Null =>
                      applications[j].workerLease[1].holder # inv'[w].leaseId
                 /\ applications' =
                      [applications EXCEPT ![j] =
                         [k \in DOMAIN @ |->
                            IF k = "workerLease" THEN <<lease>>
                            ELSE IF k \in {startedField(inv'[w].kind), "updatedAt"} THEN t
                            ELSE @[k]]]]_vars

\* An analysis invocation found no job in analyzing: it was answered "no job
\* claimed" and no job record carries a trace of it.
C21_Witness ==
  /\ \E w \in Slots :
       inv[w].kind = "analyzing" /\ inv[w].pc = "returned" /\ inv[w].resp = NoJobClaimed
  /\ \A j \in Jobs :
       /\ applications[j].processingStage = "parsing"
       /\ applications[j].workerLease = Null
       /\ applications[j].parsingStartedAt = NoTime /\ applications[j].aiStartedAt = NoTime
  /\ Jobs # {}

\* The bytes start, after their leading whitespace, with a markup '<'.
markupPrefix == [p \in Payloads |-> looksLikeHtml(payloadBytes[p])]
\* The same for the window of the bytes that looksLikeHtml inspects.
markupHead == [p \in Payloads |-> looksLikeHtml(payloadHead(p))]

\* The runs the handler can make on the document of job j.
RunsOf(j) == ExtractionRuns(fileAt(applications[j].objectPath))

\* When an invocation is about to download: what downloadPdfWithRetry does on
\* every pair of payloads, with valid the payloads it may return, and what
\* the handler then hands to the extractor and the repair tool.
DownloadValidated(valid) ==
  /\ \A w \in Slots :
       (inv[w].kind = "parsing" /\ inv[w].pc = "reread") =>
         /\ \A f \in [1..DownloadAttempts -> FetchResults] :
              LET d == downloadPdfWithRetry(f)
              IN /\ d.fetched \in 1..2
                 /\ d.ok => /\ d.buf = f[d.attempt] /\ d.attempt = d.fetched
                            /\ d.buf # "throw" /\ d.buf \in valid
                            /\ d.attempt = 2 => fetchErrors[f[1]] # ""
                 /\ ~d.ok => /\ fetchErrors[f[1]] # "" /\ fetchErrors[f[2]] # ""
                             /\ d.error = fetchErrors[f[2]]
         /\ \A run \in RunsOf(inv[w].ref) : \A i \in DOMAIN run.calls :
              LET c == run.calls[i]
              IN /\ c.op = "download" => c.fetched \in 1..2
                 /\ (c.op = "repair" \/ (c.op = "parse" /\ c.phase # "fallback")) =>
                      c.buf \in Payloads \ {"throw"} /\ c.buf \in valid
                 /\ (c.op = "parse" /\ c.phase = "fallback") => c.buf = "repaired"
  /\ \A j \in Jobs :
       applications[j].extractedTextCombined # <<>> =>
         applications[j].extractedTextCombined = normalizeText(fileAt(applications[j].objectPath).text)

callsOf(run, op) == { i \in DOMAIN run.calls : run.calls[i].op = op }
callsIn(run, phase) == { i \in DOMAIN run.calls : run.calls[i].phase = phase }

RECURSIVE fetchAttempts(_)
fetchAttempts(calls) ==
  IF calls = <<>> THEN 0 ELSE Head(calls).fetched + fetchAttempts(Tail(calls))

\* The shape of one run of lines 227-282.
BoundedRun(run) ==
  LET c == run.calls
      n == Len(c)
      primaryFailed == n >= 2 /\ c[2].op = "parse" /\ ~c[2].ok
      retried == callsIn(run, "retry") # {}
  IN /\ n >= 1 /\ c[1].op = "download" /\ c[1].phase = "primary"
     /\ (c[1].ok /\ n >= 2) => c[2] = toolCall("parse", "primary", c[1].buf, c[2].ok)
     /\ retried <=> (primaryFailed /\ c[1].attempt = 1)
     /\ retried =>
          /\ c[3].op = "download" /\ c[3].phase = "retry"
          /\ c[3].ok => c[4] = toolCall("parse", "retry", c[3].buf, c[4].ok)
          /\ callsIn(run, "retry") = IF c[3].ok THEN {3, 4} ELSE {3}
     /\ callsIn(run, "fallback") # {} <=> (run.e1 # "" /\ isLikelyXrefError(run.e1))
     /\ \A i \in callsIn(run, "fallback"), k \in DOMAIN c : c[k].phase # "fallback" => k < i
     /\ Cardinality(callsOf(run, "download") \cap callsIn(run, "fallback")) <= 1
     /\ Cardinality(callsOf(run, "parse") \cap callsIn(run, "fallback")) <= 1
     /\ Cardinality(callsOf(run, "parse")) <= 3
     /\ Cardinality(callsOf(run, "download")) <= 3
     /\ fetchAttempts(c) <= 6
     /\ run.ok \in BOOLEAN

\* C23: primary extraction that throws on bytes of a first download attempt
\* is followed by one re-download and one more extraction, whose failure goes
\* to the fallback decision; on bytes of a second attempt it goes there
\* without a re-download. An invocation makes at most three extraction
\* calls, three downloads and six fetch attempts, and goes on to the
\* analyzing write or to the parsing_failed write.
C23_BoundedExtraction ==
  /\ [](\A w \in Slots :
          (inv[w].kind = "parsing" /\ inv[w].pc = "reread") =>
            \A run \in RunsOf(inv[w].ref) : BoundedRun(run))
  /\ [][\A w \in Slots :
          LET j == inv[w].ref
          IN /\ ( /\ inv[w].kind = "parsing" /\ inv[w].pc = "reread"
                  /\ inv'[w].pc \notin {"reread", "returned"}
                  /\ applications[j].objectPath # ""
                  /\ applications[j].processingStage = "parsing" ) =>
                    \E run \in RunsOf(j) :
                      /\ inv'[w].out = Some(resultOf(run))
                      /\ inv'[w].pc = IF run.ok THEN "write_ok" ELSE "write_failed"
             /\ (inv[w].pc = "write_ok" /\ applications'[j] # applications[j]) =>
                  applications'[j].processingStage = "analyzing"
             /\ (inv[w].pc = "write_failed" /\ applications'[j] # applications[j]) =>
                  applications'[j].processingStage = "parsing_failed"]_vars

\* An invocation used everything it may: the first download delivered on its
\* first attempt, the extractor threw twice, the repair fallback downloaded a
\* third time, and the repaired document is about to be written.
C23_Witness ==
  \E w \in Slots :
    /\ inv[w].pc = "write_ok" /\ inv[w].out[1].fallbackUsed
    /\ \E run \in RunsOf(inv[w].ref) :
         /\ resultOf(run) = inv[w].out[1]
         /\ Cardinality(callsOf(run, "download")) = 3
         /\ Cardinality(callsOf(run, "parse")) = 3
         /\ fetchAttempts(run.calls) = 5

\* The k-th smallest element of a set of positions.
kth(S, k) == CHOOSE i \in S : Cardinality({ x \in S : x <= i }) = k

\* The bucket of the raw artifact that takes the matches of rules of a type.
bucketOf(raw, type) ==
  IF type = "condition" THEN raw.conditions
  ELSE IF type = "blocker" THEN raw.blockers
  ELSE raw.matchedFindings

\* C24: the rules evaluated are the base pack's rules in their order, tagged
\* "base", followed by the overlay's rules in their order, tagged "overlay",
\* none dropped for its ruleId; each bucket lists the matched rules of its
\* type in that merged order, so a ruleId present in both sets gives two
\* entries when both rules match.
C24_RuleMerge ==
  \A j \in Jobs :
    applications[j].decisionArtifactRaw # Null =>
      LET app == applications[j]
          raw == app.decisionArtifactRaw[1]
          base == theDoc(lookup(rulePacks, raw.rulePackId)).rules
          over == IF raw.overlayApplied THEN theDoc(lookup(overlays, raw.overlayId)).rules
                  ELSE <<>>
          n == Len(base)
          rule(i) == IF i <= n THEN base[i] ELSE over[i - n]
          hits(type) == { i \in 1..(n + Len(over)) :
                            /\ ruleType(rule(i)) = type
                            /\ ruleMatches(rule(i), app.extractedTextCombined) }
      IN /\ raw.summary[1] = n + Len(over)
         /\ \A type \in {"finding", "condition", "blocker"} :
              LET B == bucketOf(raw, type)
              IN /\ Len(B) = Cardinality(hits(type))
                 /\ \A k \in 1..Len(B) :
                      LET i == kth(hits(type), k)
                      IN /\ B[k].ruleId = rule(i).ruleId
                         /\ B[k].title = rule(i).title
                         /\ B[k].source = IF i <= n THEN "base" ELSE "overlay"
                         /\ B[k].evidence =
                              firstMatchEvidence(trim(rule(i).pattern), app.extractedTextCombined)

\* The pack and the overlay each hold a blocker with the same ruleId, both
\* matched, and the blockers list has the two entries, base first.
C24_Witness ==
  \E j \in Jobs :
    /\ applications[j].decisionArtifactRaw # Null
    /\ LET B == applications[j].decisionArtifactRaw[1].blockers
       IN /\ Len(B) = 2
          /\ B[1].ruleId = B[2].ruleId
          /\ B[1].source = "base" /\ B[2].source = "overlay"

\* The rule's pattern is empty or whitespace, or is no regular expression.
badRule(r) ==
  \/ \A i \in 1..Len(r.pattern) : IsSpace(r.pattern[i])
  \/ \E i \in 1..Len(r.pattern) : r.pattern[i] = "("

\* The document with the bad rules taken out of its rule list.
withoutBadRules(doc) == [doc EXCEPT !.rules = SelectSeq(@, LAMBDA r : ~badRule(r))]

\* C25: a rule whose pattern is blank or does not compile adds no entry and
\* does not stop the evaluation: the job reaches ai_completed, and the buckets
\* and the decision written are those of the same evaluation with such rules
\* removed from the pack and the overlay.
C25_BadRulesSkipped ==
  \A j \in Jobs :
    applications[j].decisionArtifactRaw # Null =>
      LET app == applications[j]
          raw == app.decisionArtifactRaw[1]
          pack == withoutBadRules(theDoc(lookup(rulePacks, raw.rulePackId)))
          over == IF raw.overlayApplied
                    THEN withoutBadRules(theDoc(lookup(overlays, raw.overlayId))).rules
                    ELSE <<>>
          rules == tagSource(pack.rules, "base") \o tagSource(over, "overlay")
          blockers == matchedInto(rules, app.extractedTextCombined, "blockers")
          conditions == matchedInto(rules, app.extractedTextCombined, "conditions")
      IN /\ app.processingStage = "ai_completed"
         /\ \A i \in 1..Len(rules) : safeRegex(trim(rules[i].pattern)) /\ trim(rules[i].pattern) # <<>>
         /\ raw.blockers = blockers
         /\ raw.conditions = conditions
         /\ raw.matchedFindings = matchedInto(rules, app.extractedTextCombined, "matchedFindings")
         /\ app.decisionArtifactPublic[1].conditions = conditions
         /\ app.decision = decide(blockers, conditions)
         /\ app.lastError = "" /\ app.error = ""

\* A pack with a blocker that does not compile and a condition with a blank
\* pattern was evaluated: neither left an entry and the decision is 'pass'.
C25_Witness ==
  \E j \in Jobs :
    /\ applications[j].decisionArtifactRaw # Null
    /\ applications[j].decision = "pass"
    /\ \E p \in rulePacks :
         /\ \E i \in 1..Len(p.rules) : p.rules[i].pattern = <<"(">>
         /\ \E i \in 1..Len(p.rules) : p.rules[i].pattern = <<" ">>

\* The overlay documents the job's program points to.
overlaysOf(app) ==
  { o \in overlays :
      \E p \in programs : p.id = app.programId /\ p.activeOverlayId # "" /\ o.id = p.activeOverlayId }

\* C26: overlayApplied is true iff the job names a program, the program
\* exists and names an active overlay, and that overlay exists. Otherwise the
\* evaluation runs on the base rules alone, with overlayApplied false,
\* overlayId and overlayName null, overlayRuleCount 0, no error and the
\* decision of the base rules. When applied, overlayRuleCount is the number of
\* overlay rules merged.
C26_OverlayResolution ==
  \A j \in Jobs :
    LET app == applications[j]
    IN /\ (app.processingStage = "ai_completed" /\ ~missingData(app) /\ app.aiCompletedAt # NoTime) =>
            app.decisionArtifactRaw # Null
       /\ app.decisionArtifactRaw # Null =>
            LET raw == app.decisionArtifactRaw[1]
                pub == app.decisionArtifactPublic[1]
                base == tagSource(theDoc(lookup(rulePacks, raw.rulePackId)).rules, "base")
                blockers == matchedInto(base, app.extractedTextCombined, "blockers")
                conditions == matchedInto(base, app.extractedTextCombined, "conditions")
            IN /\ raw.overlayApplied <=> (app.programId # "" /\ overlaysOf(app) # {})
               /\ ~raw.overlayApplied =>
                    /\ raw.overlayId = "" /\ raw.overlayName = "" /\ raw.overlayRuleCount = 0
                    /\ raw.summary[1] = Len(base)
                    /\ raw.blockers = blockers /\ raw.conditions = conditions
                    /\ app.decision = decide(blockers, conditions)
                    /\ app.lastError = "" /\ app.error = ""
               /\ raw.overlayApplied =>
                    \E o \in overlaysOf(app) :
                      /\ raw.overlayId = o.id
                      /\ raw.overlayName = IF o.name # "" THEN o.name ELSE o.id
                      /\ raw.overlayRuleCount = Len(o.rules)
                      /\ raw.summary[1] = Len(base) + Len(o.rules)
               /\ pub.overlayApplied = raw.overlayApplied
               /\ pub.overlayRuleCount = raw.overlayRuleCount

\* The job's program names an overlay that does not exist: the evaluation
\* completed on the base rules, which matched, with no overlay and no error.
C26_Witness ==
  \E j \in Jobs :
    /\ applications[j].decisionArtifactRaw # Null
    /\ applications[j].programId # ""
    /\ \E p \in programs : p.id = applications[j].programId /\ p.activeOverlayId # ""
    /\ overlays = {}
    /\ ~applications[j].decisionArtifactRaw[1].overlayApplied
    /\ applications[j].decision = "fail"
    /\ applications[j].lastError = ""

\* The fields the two artifacts have in common by the specification.
SharedFields ==
  {"decision", "summary", "matchedFindings", "conditions",
   "overlayApplied", "overlayId", "overlayName", "overlayRuleCount"}

\* C27: decisionArtifactPublic holds no blockers list, no rulePackVersion and
\* no notes, decisionArtifactRaw holds all three; decision, summary, matched
\* findings, conditions and the four overlay fields are the same in both, and
\* their decision is the job's top-level decision.
C27_ArtifactSeparation ==
  \A j \in Jobs :
    LET app == applications[j]
    IN /\ app.decisionArtifactPublic # Null <=> app.decisionArtifactRaw # Null
       /\ app.decisionArtifactRaw # Null =>
            LET raw == app.decisionArtifactRaw[1]
                pub == app.decisionArtifactPublic[1]
            IN /\ DOMAIN pub \cap {"blockers", "rulePackVersion", "notes"} = {}
               /\ {"blockers", "rulePackVersion", "notes"} \subseteq DOMAIN raw
               /\ raw.blockers = matchedInto(mergedRules(app), app.extractedTextCombined, "blockers")
               /\ SharedFields \subseteq DOMAIN pub \cap DOMAIN raw
               /\ \A f \in SharedFields : pub[f] = raw[f]
               /\ pub.findings = pub.matchedFindings
               /\ pub.decision = app.decision

\* A blocker matched: the raw artifact lists it, the public artifact shows
\* the 'fail' decision and has no field for it.
C27_Witness ==
  \E j \in Jobs :
    /\ applications[j].decisionArtifactRaw # Null
    /\ Len(applications[j].decisionArtifactRaw[1].blockers) > 0
    /\ applications[j].decisionArtifactPublic[1].decision = "fail"
    /\ "blockers" \notin DOMAIN applications[j].decisionArtifactPublic[1]

\* The result is one the driver counts as a failure: status >= 400 or ok false.
failedResult(x) == x.status >= 400 \/ ~x.ok \/ ~x.bodyOk

\* C28: a tick calls the watchdog, the parsing worker and the analysis worker
\* one after the other in that order, each once, a call being made only after
\* the answer to the one before; the analysis worker is called also after a
\* failing answer of the parsing worker; and the tick reports failure
\* (anyFailed, and ok false from the cron route) iff some worker answered with
\* a status >= 400 or ok false.
C28_TickOrdering ==
  /\ [](\A d \in Slots :
          LET me == inv[d]
          IN /\ Len(me.out) <= 3
             /\ \A i \in 1..Len(me.out) : me.out[i].path = WorkerPaths[i]
             /\ me.pc = "call" => Len(me.out) < 3
             /\ (Len(me.out) \in 1..2 /\ me.pc # "returned") => me.pc = "call"
             /\ (me.pc = "returned" /\ me.resp[1].tick) =>
                  /\ Len(me.out) = 3 /\ me.resp[1].results = me.out
                  /\ me.resp[1].anyFailed <=> \E i \in 1..3 : failedResult(me.out[i])
                  /\ me.kind = "cron" => (me.resp[1].ok <=> ~me.resp[1].anyFailed)
                  /\ me.kind = "cron" => (me.resp[1].status = 200 <=> ~me.resp[1].anyFailed))
  /\ [][\A d \in Slots :
          inv'[d].out # inv[d].out =>
            /\ inv[d].pc = "call"
            /\ \E answer \in WorkerAnswers(WorkerPaths[Len(inv[d].out) + 1]) :
                 inv'[d].out = Append(inv[d].out, callResult(WorkerPaths[Len(inv[d].out) + 1], answer))]_vars

\* The parsing worker answered 500 in a tick; the analysis worker was called
\* after it and answered 200, and the tick reports anyFailed.
C28_Witness ==
  \E d \in Slots :
    /\ inv[d].pc = "returned" /\ inv[d].resp[1].tick
    /\ inv[d].out[1].status = 200
    /\ inv[d].out[2].status = 500
    /\ inv[d].out[3].path = "/api/worker/ai/process" /\ inv[d].out[3].status = 200
    /\ inv[d].resp[1].anyFailed

\* The underwriter id is empty or whitespace.
blankId(u) == \A i \in 1..Len(u) : IsSpace(u[i])

\* The changes of status the specification allows.
StatusEdges ==
  { <<"New", "In Review">>, <<"In Review", "Approved">>, <<"In Review", "Denied">>,
    <<"Approved", "Closed">>, <<"Denied", "Closed">> }

\* C30: validateStatusChange returns null for a change from -> to, from # to,
\* only if to is in TRANSITIONS[from] (New -> In Review; In Review ->
\* Approved or Denied; Approved -> Closed; Denied -> Closed) and, for to =
\* Approved, the underwriterId is not blank. So along accepted changes
\* starting at New, Closed is never left, Approved is entered only from In
\* Review with an underwriter assigned, and allowedNextStatuses(from) lists
\* exactly the targets canTransition accepts.
C30_StatusMachine ==
  /\ [](/\ \A from \in Statuses, to \in Statuses, u \in UnderwriterIds :
             from # to =>
               (validateStatusChange(from, to, u) = "" <=>
                  (<<from, to>> \in StatusEdges /\ (to = "Approved" => ~blankId(u))))
        /\ \A from \in Statuses :
             { to \in Statuses : canTransition(from, to) } =
             { allowedNextStatuses(from)[i] : i \in DOMAIN allowedNextStatuses(from) }
        /\ \A w \in Slots :
             inv[w].pc = "returned" =>
               LET req == inv[w].out[1]
               IN (inv[w].resp[1] = "" /\ req.from # req.to) =>
                    /\ <<req.from, req.to>> \in StatusEdges
                    /\ req.to = "Approved" => ~blankId(req.underwriterId))
  /\ [][\A a \in Jobs :
          applications'[a].status # applications[a].status =>
            /\ <<applications[a].status, applications'[a].status>> \in StatusEdges
            /\ applications[a].status # "Closed"
            /\ applications'[a].status = "Approved" =>
                 /\ applications[a].status = "In Review"
                 /\ ~blankId(applications[a].underwriterId)]_vars

\* An application was approved: the change from In Review with an underwriter
\* assigned was validated and written.
C30_Witness ==
  \E a \in Jobs, w \in Slots :
    /\ applications[a].status = "Approved"
    /\ inv[w].pc = "returned"
    /\ inv[w].out[1] = [from |-> "In Review", to |-> "Approved", underwriterId |-> <<"u", "1">>]
    /\ inv[w].resp[1] = ""

\* C29: with ticks recurring, the clock advancing, every invocation
\* returning or crashing and only finitely many crashes, every job created in
\* parsing eventually is in parsing_failed or ai_completed and stays there
\* (an invocation whose lease ran out may still move it out once more before
\* it does).
C29_PipelineProgress ==
  \A j \in 1..MaxApps :
    <>[](applications[j].processingStage \in {"parsing_failed", "ai_completed"})

\* A store failure has happened, time has passed, and the job is analysed
\* with no lease left on it.
C29_Witness ==
  \E j \in Jobs :
    /\ bucket.outages = 0
    /\ applications[j].processingStage = "ai_completed"
    /\ applications[j].workerLease = Null
    /\ clock > InitClock

====
